---- MODULE Spec2Model ----
(***************************************************************************)
(* A model of the task benchmark harness: the task variants and their      *)
(* evaluation (src/src/task.rs), the arithmetic helpers                    *)
(* (src/src/helpers.rs), and the generator, the serial runner and the      *)
(* mutex-guarded worker pool of src/src/main.rs.                           *)
(***************************************************************************)
EXTENDS Integers, Sequences, FiniteSets, Bags, TLC

(***************************************************************************)
(* Bounds of the model.                                                    *)
(***************************************************************************)
\* longest batch handed to the two runners
MaxBatch == 3
\* largest thread_count (num_cpus::get() of the modelled machine)
MaxThreads == 2
\* longest batch of the runs checked for termination
MaxLiveBatch == 2
\* longest batch asked of generate_tasks
MaxGen == 2
\* largest small operand of the tasks evaluated on their own
MaxOperand == 3
\* longest duration handed to compare_durations, in milliseconds
MaxMillis == 100
\* largest base, exponent and modulus of the calls of mod_exp
MaxModExp == 13
\* largest n of the calls of fibonacci
MaxFib == 30
\* longest line typed at a prompt, in characters
MaxLine == 2
\* largest num_cpus::get() of the modelled machines
MaxCpus == 2

(***************************************************************************)
(* Native integer widths.  The model checker's integers are 32 bits wide,  *)
(* so an i32 is a model integer whose overflows are detected before they   *)
(* happen, and a u64 is four 16-bit limbs, least significant first.        *)
(***************************************************************************)
I32Max == 2147483647
I32Min == -I32Max - 1
Limb == 2^16

Abs(x) == IF x >= 0 THEN x ELSE -x

\* a + b leaves the i32 range
AddOverflowsI32(a, b) ==
    \/ b > 0 /\ a > I32Max - b
    \/ b < 0 /\ a < I32Min - b

\* a + b of a wrapping (release) build
WrapAddI32(a, b) ==
    IF b > 0 /\ a > I32Max - b THEN (a + I32Min) + (b + I32Min)
    ELSE IF b < 0 /\ a < I32Min - b THEN (a - I32Min) + (b - I32Min)
    ELSE a + b

\* a * b leaves the i32 range
MulOverflowsI32(a, b) ==
    IF a = 0 \/ b = 0 THEN FALSE
    ELSE IF a = I32Min THEN b # 1
    ELSE IF b = I32Min THEN a # 1
    ELSE IF (a > 0) = (b > 0) THEN Abs(a) > I32Max \div Abs(b)
    ELSE Abs(a) - 1 > (I32Max - (Abs(b) - 1)) \div Abs(b)

\* the value of an expression, computed once where it is bound
Value(S) == CHOOSE x \in S : TRUE

\* a * b of a wrapping build: shift-and-add over the 32 bits of b
RECURSIVE WrapMulBits(_, _, _)
WrapMulBits(a, b, bits) ==
    IF bits = 0 THEN 0
    ELSE Value({IF b % 2 = 1 THEN WrapAddI32(a, rest) ELSE rest :
                rest \in {WrapMulBits(a2, b \div 2, bits - 1) :
                            a2 \in {WrapAddI32(a, a)}}})

WrapMulI32(a, b) == WrapMulBits(a, b, 32)

\* Rust's integer division truncates toward zero; b # 0 and not I32Min / -1
TruncPos(a, b) ==
    IF a < 0 /\ a % b # 0 THEN (a \div b) + 1 ELSE a \div b

TruncDiv(a, b) ==
    IF b > 0 THEN TruncPos(a, b)
    ELSE IF b = I32Min THEN (IF a = I32Min THEN 1 ELSE 0)
    ELSE -TruncPos(a, -b)

\* a model integer (0 .. 2^31 - 1) as a u64
U64(n) == <<n % Limb, n \div Limb, 0, 0>>

\* x + y on u64: the wrapped sum, and whether it left the width
AddU64(x, y) ==
    LET s1 == x[1] + y[1]
        s2 == x[2] + y[2] + s1 \div Limb
        s3 == x[3] + y[3] + s2 \div Limb
        s4 == x[4] + y[4] + s3 \div Limb
    IN  [v |-> <<s1 % Limb, s2 % Limb, s3 % Limb, s4 % Limb>>,
         ovf |-> s4 \div Limb # 0]

\* x * k on u64 for a factor k below 2^15
MulU64(x, k) ==
    LET s1 == x[1] * k
        s2 == x[2] * k + s1 \div Limb
        s3 == x[3] * k + s2 \div Limb
        s4 == x[4] * k + s3 \div Limb
    IN  [v |-> <<s1 % Limb, s2 % Limb, s3 % Limb, s4 % Limb>>,
         ovf |-> s4 \div Limb # 0]

(***************************************************************************)
(* helpers.rs.  Each arithmetic helper yields [v |-> the value of a        *)
(* wrapping build, ovf |-> whether an operation left the native width].    *)
(***************************************************************************)
\* one call fib(n, p, c) with n > 0: it goes on as fib(n - 1, c, p + c)
fib_step(st) ==
    LET s == AddU64(st.p, st.c)
    IN  [p |-> st.c, c |-> s.v, ovf |-> st.ovf \/ s.ovf]

\* k calls in a row, taken as two halves, the first half evaluated first
RECURSIVE fib_calls(_, _)
fib_calls(k, st) ==
    IF k <= 0 THEN st
    ELSE IF k = 1 THEN fib_step(st)
    ELSE Value({fib_calls(k - (k \div 2), half) : half \in {fib_calls(k \div 2, st)}})

\* fib(n, p, c): n calls with n > 0, then the call with n <= 0 returns c
fib(n, p, c) ==
    LET last == fib_calls(n, [p |-> p, c |-> c, ovf |-> FALSE])
    IN  [v |-> last.c, ovf |-> last.ovf]

\* mutant of fibonacci: the sequence starts one step earlier
fibonacci_FromZero(n) ==
    IF n <= 0 THEN [v |-> U64(0), ovf |-> FALSE] ELSE fib(n, U64(1), U64(0))

fibonacci(n) ==
    IF n <= 0 THEN [v |-> U64(0), ovf |-> FALSE] ELSE fib(n, U64(0), U64(1))

\* one step of the product over 1..=n: the accumulator times the next item
product_step(st) ==
    LET m == MulU64(st.acc, st.i)
    IN  [i |-> st.i + 1, acc |-> m.v, ovf |-> st.ovf \/ m.ovf]

\* k steps in a row, taken as two halves, the first half evaluated first
RECURSIVE product_steps(_, _)
product_steps(k, st) ==
    IF k <= 0 THEN st
    ELSE IF k = 1 THEN product_step(st)
    ELSE Value({product_steps(k - (k \div 2), half) : half \in {product_steps(k \div 2, st)}})

\* (1..=n).product()
product(n) ==
    LET last == product_steps(n, [i |-> 1, acc |-> U64(1), ovf |-> FALSE])
    IN  [v |-> last.acc, ovf |-> last.ovf]

factorial(n) == IF n = 0 THEN [v |-> U64(1), ovf |-> FALSE] ELSE product(n)

compute(a, b) == [v |-> WrapAddI32(a, b), ovf |-> AddOverflowsI32(a, b)]

\* b = 0 panics (the caller tests it first); I32Min / -1 panics in every build
divide(a, b) ==
    IF b = 0 \/ (a = I32Min /\ b = -1)
    THEN [v |-> 0, panics |-> TRUE]
    ELSE [v |-> TruncDiv(a, b), panics |-> FALSE]

multiply(a, b) == [v |-> WrapMulI32(a, b), ovf |-> MulOverflowsI32(a, b)]

RECURSIVE prime_loop(_, _)
prime_loop(i, n) ==
    IF i >= (n \div 2) + 1 THEN TRUE
    ELSE IF i * (n \div i) = n THEN FALSE
    ELSE prime_loop(i + 1, n)

prime_check(n) == IF n < 2 THEN FALSE ELSE prime_loop(2, n)

\* mutant of mod_exp_loop: the base is not squared
RECURSIVE mod_exp_loop_NoSquare(_, _, _, _)
mod_exp_loop_NoSquare(base, exp, modulus, result) ==
    IF exp > 0
    THEN mod_exp_loop_NoSquare(base, exp \div 2, modulus,
                               IF exp % 2 = 1 THEN (result * base) % modulus
                               ELSE result)
    ELSE result

\* The loop of mod_exp, for a modulus below 2^15: base and result stay below
\* the modulus, so every product is below 2^30 and inside the u64 width.
RECURSIVE mod_exp_loop(_, _, _, _)
mod_exp_loop(base, exp, modulus, result) ==
    IF exp > 0
    THEN mod_exp_loop((base * base) % modulus, exp \div 2, modulus,
                      IF exp % 2 = 1 THEN (result * base) % modulus ELSE result)
    ELSE result

\* modulus = 0 panics at base %= modulus (the caller tests it first)
mod_exp(base, exp, modulus) ==
    IF modulus = 0 THEN [v |-> 0, panics |-> TRUE]
    ELSE IF modulus = 1 THEN [v |-> 0, panics |-> FALSE]
    ELSE [v |-> mod_exp_loop(base % modulus, exp, modulus, 1), panics |-> FALSE]

\* The products the loop of mod_exp computes, as u64 multiplications:
\* result * base when the low bit of exp is set, and base * base each round.
RECURSIVE mod_exp_loop_products(_, _, _, _)
mod_exp_loop_products(base, exp, modulus, result) ==
    IF exp > 0
    THEN (IF exp % 2 = 1 THEN {MulU64(U64(result), base)} ELSE {})
         \cup {MulU64(U64(base), base)}
         \cup mod_exp_loop_products((base * base) % modulus, exp \div 2, modulus,
                                    IF exp % 2 = 1 THEN (result * base) % modulus
                                    ELSE result)
    ELSE {}

mod_exp_products(base, exp, modulus) ==
    IF modulus <= 1 THEN {}
    ELSE mod_exp_loop_products(base % modulus, exp, modulus, 1)

(***************************************************************************)
(* task.rs: the task variants and their evaluation.                        *)
(***************************************************************************)
Compute(a, b) == [kind |-> "Compute", a |-> a, b |-> b]
Fibonacci(n) == [kind |-> "Fibonacci", n |-> n]
Divide(numerator, denominator) ==
    [kind |-> "Divide", numerator |-> numerator, denominator |-> denominator]
Multiply(a, b) == [kind |-> "Multiply", a |-> a, b |-> b]
Factorial(n) == [kind |-> "Factorial", n |-> n]
PrimeCheck(n) == [kind |-> "PrimeCheck", n |-> n]
ModuloExponentiation(base, exponent, modulus) ==
    [kind |-> "ModuloExponentiation", base |-> base, exponent |-> exponent,
     modulus |-> modulus]

DivisionByZero == "Division by zero."
ZeroModulus == "Modulus cannot be zero."

\* What one call of run can end in: Ok(()), Err(msg), or a panic that unwinds
\* the calling thread.  calls is the set of helpers the call invoked.
Ok(calls) == [res |-> "Ok", msg |-> "", calls |-> calls]
Err(msg) == [res |-> "Err", msg |-> msg, calls |-> {}]
Panic(calls) == [res |-> "Panic", msg |-> "", calls |-> calls]

\* An operation that leaves the native width panics in a build with overflow
\* checks (the debug profile) and wraps in a build without them (release).
Arith(r, helper, checks) ==
    IF r.ovf /\ checks THEN Panic({helper}) ELSE Ok({helper})

\* A helper that panics in every build (division by zero, I32Min / -1).
Checked(r, helper) ==
    IF r.panics THEN Panic({helper}) ELSE Ok({helper})

\* TaskType::run in a build with (checks) or without overflow checks
run(task, checks) ==
    CASE task.kind = "Compute" ->
            Arith(compute(task.a, task.b), "compute", checks)
      [] task.kind = "Fibonacci" ->
            Arith(fibonacci(task.n), "fibonacci", checks)
      [] task.kind = "Divide" ->
            IF task.denominator = 0
            THEN Err(DivisionByZero)
            ELSE Checked(divide(task.numerator, task.denominator), "divide")
      [] task.kind = "Multiply" ->
            Arith(multiply(task.a, task.b), "multiply", checks)
      [] task.kind = "Factorial" ->
            Arith(factorial(task.n), "factorial", checks)
      [] task.kind = "PrimeCheck" ->
            Ok({"prime_check"})
      [] task.kind = "ModuloExponentiation" ->
            IF task.modulus = 0
            THEN Err(ZeroModulus)
            ELSE Checked(mod_exp(task.base, task.exponent, task.modulus), "mod_exp")

(***************************************************************************)
(* main.rs: the state of one benchmark run.                                *)
(***************************************************************************)
VARIABLES
    overflow_checks,\* the build: TRUE with overflow checks (debug), FALSE without
    tasks,          \* the batch handed to both runners
    thread_count,   \* number of workers of the concurrent run
    simulate_load,  \* whether a delay precedes every evaluation
    pc,             \* where the main thread is
    s_next,         \* execute_serially: number of items the for loop has taken
    s_timer,        \* execute_serially: "unread", "running" or "stopped"
    queue,          \* the VecDeque inside the Arc<Mutex<..>>
    lock,           \* the worker holding the MutexGuard, 0 when the mutex is free
    wpc,            \* where each worker thread is
    maybe_task,     \* each worker's maybe_task: <<>> is None, <<t>> is Some(t)
    spawned,        \* number of handles pushed by the spawn loop
    joined,         \* number of handles the join loop has joined
    c_timer,        \* execute_concurrently: "unread", "running" or "stopped"
    log,            \* what the run did, for stating the properties
    batch_size,     \* generate_tasks: the number of tasks asked for
    rng,            \* generate_tasks: number of values drawn from rng since seeding
    stream,         \* the values StdRng::seed_from_u64(42) yields, as far as drawn
    building,       \* generate_tasks: the local vector tasks
    generated,      \* the batches generate_tasks has returned, in call order
    subject,        \* a task or a call evaluated on its own, None when there is none
    returned,       \* what the evaluation of subject ended in, None before it
    cli             \* main's prompting: the locals of main and prompt_for_u32

inputs == <<overflow_checks, tasks, thread_count, simulate_load>>
side == <<batch_size, rng, stream, building, generated, subject, returned>>

vars == <<overflow_checks, tasks, thread_count, simulate_load, pc, s_next, s_timer,
          queue, lock, wpc, maybe_task, spawned, joined, c_timer, log, batch_size,
          rng, stream, building, generated, subject, returned, cli>>

Workers == 1..MaxThreads

None == <<>>
Some(t) == <<t>>

\* The directly constructed tasks the batches are made of: one that succeeds,
\* one for each error, and one whose sum leaves the i32 range.
TaskSamples ==
    { Compute(3, 4),
      Divide(10, 0),
      ModuloExponentiation(2, 3, 0),
      Compute(I32Max, 1) }

RECURSIVE SeqsUpTo(_, _)
SeqsUpTo(S, n) ==
    IF n = 0 THEN {<<>>}
    ELSE LET shorter == SeqsUpTo(S, n - 1)
         IN  shorter \cup {Append(q, x) : q \in {r \in shorter : Len(r) = n - 1}, x \in S}

NoErrors == [m \in {DivisionByZero, ZeroModulus} |-> 0]

\* log.s_evaluated: the positions of the items whose run returned, in order
\* log.c_evaluated: the bag of the items whose run returned
\* log.s_errors / log.c_errors: how many times each error message was reported
\* log.s_delays / log.c_delays: the microseconds slept for load simulation
\* log.popped: the items pop_front returned, in the order of the pops
\* log.s_in_timer / log.c_in_timer: every evaluation, pop so far fell between
\*   the timer's start and its stop
InitLog ==
    [s_evaluated |-> <<>>, s_errors |-> NoErrors, s_delays |-> 0,
     c_evaluated |-> EmptyBag, c_errors |-> NoErrors, c_delays |-> 0,
     popped |-> <<>>, s_in_timer |-> TRUE, c_in_timer |-> TRUE]

\* main's prompting is not part of the run
NoCli == [site |-> "none"]

\* nothing has run yet
Fresh ==
    /\ s_next = 0
    /\ s_timer = "unread"
    /\ queue = <<>>
    /\ lock = 0
    /\ wpc = [w \in Workers |-> "unspawned"]
    /\ maybe_task = [w \in Workers |-> None]
    /\ spawned = 0
    /\ joined = 0
    /\ c_timer = "unread"
    /\ log = InitLog
    /\ rng = 0
    /\ stream = <<>>
    /\ building = <<>>
    /\ generated = <<>>
    /\ returned = None

\* The two runners on directly constructed batches: main runs
\* execute_serially and then execute_concurrently on the batch
\* ("serial_start"); execute_concurrently is public and is also called on
\* its own ("conc_queue").
Init ==
    /\ overflow_checks \in BOOLEAN
    /\ tasks \in SeqsUpTo(TaskSamples, MaxBatch)
    /\ thread_count \in 1..MaxThreads
    /\ simulate_load \in BOOLEAN
    /\ pc \in {"serial_start", "conc_queue"}
    /\ batch_size = 0
    /\ subject = None
    /\ cli = NoCli
    /\ Fresh

\* mutant of pop_front: the item is taken from the back
pop_back(q) ==
    IF q = <<>> THEN [item |-> None, rest |-> q]
    ELSE [item |-> Some(q[Len(q)]), rest |-> SubSeq(q, 1, Len(q) - 1)]

\* mutant of pop_front: the front item stays in the queue
pop_front_keeps(q) ==
    IF q = <<>> THEN [item |-> None, rest |-> q]
    ELSE [item |-> Some(Head(q)), rest |-> q]

\* VecDeque::pop_front: the front item, if any, and the queue without it
pop_front(q) ==
    IF q = <<>> THEN [item |-> None, rest |-> q]
    ELSE [item |-> Some(Head(q)), rest |-> Tail(q)]

\* if let Err(e) = task.run(..) { eprintln!(..) }: one more report of e
Report(errors, outcome) ==
    IF outcome.res = "Err"
    THEN [errors EXCEPT ![outcome.msg] = @ + 1]
    ELSE errors

(***************************************************************************)
(* execute_serially, run by the main thread.                               *)
(***************************************************************************)
\* let start = Instant::now();
SerialStart ==
    /\ pc = "serial_start"
    /\ s_timer' = "running"
    /\ pc' = "serial_loop"
    /\ UNCHANGED <<cli, inputs, side, s_next, queue, lock, wpc,
                   maybe_task, spawned, joined, c_timer, log>>

\* for task in tasks: the iterator yields the next item
SerialNext ==
    /\ pc = "serial_loop"
    /\ s_next < Len(tasks)
    /\ s_next' = s_next + 1
    /\ pc' = IF simulate_load THEN "serial_sleep" ELSE "serial_run"
    /\ UNCHANGED <<cli, inputs, side, s_timer, queue, lock, wpc,
                   maybe_task, spawned, joined, c_timer, log>>

\* Duration::from_micros(100) of execute_serially
SerialDelay == 100

\* std::thread::sleep(Duration::from_micros(100));
SerialSleep ==
    /\ pc = "serial_sleep"
    /\ log' = [log EXCEPT !.s_delays = @ + SerialDelay]
    /\ pc' = "serial_run"
    /\ UNCHANGED <<cli, inputs, side, s_next, s_timer, queue, lock,
                   wpc, maybe_task, spawned, joined, c_timer>>

\* mutants of SerialRun: an error is swallowed; an error ends the loop
SerialRun_DropsError ==
    /\ pc = "serial_run"
    /\ LET outcome == run(tasks[s_next], overflow_checks)
       IN IF outcome.res = "Panic"
          THEN /\ pc' = "aborted"
               /\ log' = [log EXCEPT !.s_in_timer = @ /\ s_timer = "running"]
          ELSE /\ pc' = "serial_loop"
               /\ log' = [log EXCEPT
                            !.s_evaluated = Append(@, s_next),
                            !.s_in_timer = @ /\ s_timer = "running"]
    /\ UNCHANGED <<cli, inputs, side, s_next, s_timer, queue, lock,
                   wpc, maybe_task, spawned, joined, c_timer>>

SerialRun_BreaksOnError ==
    /\ pc = "serial_run"
    /\ LET outcome == run(tasks[s_next], overflow_checks)
       IN IF outcome.res = "Panic"
          THEN /\ pc' = "aborted"
               /\ s_next' = s_next
               /\ log' = [log EXCEPT !.s_in_timer = @ /\ s_timer = "running"]
          ELSE /\ pc' = "serial_loop"
               /\ s_next' = IF outcome.res = "Err" THEN Len(tasks) ELSE s_next
               /\ log' = [log EXCEPT
                            !.s_evaluated = Append(@, s_next),
                            !.s_errors = Report(@, outcome),
                            !.s_in_timer = @ /\ s_timer = "running"]
    /\ UNCHANGED <<cli, inputs, side, s_timer, queue, lock,
                   wpc, maybe_task, spawned, joined, c_timer>>

\* if let Err(e) = task.run(..) { eprintln!(..) }; a panic unwinds main
SerialRun ==
    /\ pc = "serial_run"
    /\ LET outcome == run(tasks[s_next], overflow_checks)
       IN IF outcome.res = "Panic"
          THEN /\ pc' = "aborted"
               /\ log' = [log EXCEPT !.s_in_timer = @ /\ s_timer = "running"]
          ELSE /\ pc' = "serial_loop"
               /\ log' = [log EXCEPT
                            !.s_evaluated = Append(@, s_next),
                            !.s_errors = Report(@, outcome),
                            !.s_in_timer = @ /\ s_timer = "running"]
    /\ UNCHANGED <<cli, inputs, side, s_next, s_timer, queue, lock,
                   wpc, maybe_task, spawned, joined, c_timer>>

\* the iterator is exhausted: start.elapsed()
SerialStop ==
    /\ pc = "serial_loop"
    /\ s_next >= Len(tasks)
    /\ s_timer' = "stopped"
    /\ pc' = "conc_queue"
    /\ UNCHANGED <<cli, inputs, side, s_next, queue, lock, wpc,
                   maybe_task, spawned, joined, c_timer, log>>

(***************************************************************************)
(* execute_concurrently: the dispatcher, run by the main thread.           *)
(***************************************************************************)
\* let queue = Arc::new(Mutex::new(VecDeque::from(tasks.to_vec())));
ConcQueue ==
    /\ pc = "conc_queue"
    /\ queue' = tasks
    /\ pc' = "conc_start"
    /\ UNCHANGED <<cli, inputs, side, s_next, s_timer, lock, wpc,
                   maybe_task, spawned, joined, c_timer, log>>

\* let start_time = Instant::now();
ConcStart ==
    /\ pc = "conc_start"
    /\ c_timer' = "running"
    /\ pc' = "conc_spawn"
    /\ UNCHANGED <<cli, inputs, side, s_next, s_timer, queue, lock,
                   wpc, maybe_task, spawned, joined, log>>

\* for _ in 0..thread_count { handles.push(thread::spawn(..)) }
Spawn ==
    /\ pc = "conc_spawn"
    /\ spawned < thread_count
    /\ spawned' = spawned + 1
    /\ wpc' = [wpc EXCEPT ![spawned + 1] = "lock"]
    /\ UNCHANGED <<cli, inputs, side, pc, s_next, s_timer, queue,
                   lock, maybe_task, joined, c_timer, log>>

SpawnDone ==
    /\ pc = "conc_spawn"
    /\ spawned >= thread_count
    /\ pc' = "conc_join"
    /\ UNCHANGED <<cli, inputs, side, s_next, s_timer, queue, lock,
                   wpc, maybe_task, spawned, joined, c_timer, log>>

\* handle.join().expect(..) on the next handle, whose thread returned
JoinOk ==
    /\ pc = "conc_join"
    /\ joined < spawned
    /\ wpc[joined + 1] = "exited"
    /\ joined' = joined + 1
    /\ UNCHANGED <<cli, inputs, side, pc, s_next, s_timer, queue,
                   lock, wpc, maybe_task, spawned, c_timer, log>>

\* mutant of JoinPanicked: the Err of join is ignored
JoinPanicked_Ignored ==
    /\ pc = "conc_join"
    /\ joined < spawned
    /\ wpc[joined + 1] = "panicked"
    /\ joined' = joined + 1
    /\ UNCHANGED <<cli, inputs, side, pc, s_next, s_timer, queue, lock,
                   wpc, maybe_task, spawned, c_timer, log>>

\* handle.join() is Err for a thread that panicked: expect panics in main
JoinPanicked ==
    /\ pc = "conc_join"
    /\ joined < spawned
    /\ wpc[joined + 1] = "panicked"
    /\ pc' = "aborted"
    /\ UNCHANGED <<cli, inputs, side, s_next, s_timer, queue, lock,
                   wpc, maybe_task, spawned, joined, c_timer, log>>

\* mutant of ConcStop: the timer is read without waiting for the handles
ConcStop_Unjoined ==
    /\ pc = "conc_join"
    /\ c_timer' = "stopped"
    /\ pc' = "done"
    /\ UNCHANGED <<cli, inputs, side, s_next, s_timer, queue, lock,
                   wpc, maybe_task, spawned, joined, log>>

\* every handle is joined: Instant::now() - start_time
ConcStop ==
    /\ pc = "conc_join"
    /\ joined >= spawned
    /\ c_timer' = "stopped"
    /\ pc' = "done"
    /\ UNCHANGED <<cli, inputs, side, s_next, s_timer, queue, lock,
                   wpc, maybe_task, spawned, joined, log>>

(***************************************************************************)
(* execute_concurrently: the closure every worker thread runs.  A worker   *)
(* runs only while the process lives, that is until main panics.           *)
(***************************************************************************)
Alive == pc # "aborted"

\* let mut queue_guard = task_queue.lock().unwrap();
Lock(w) ==
    /\ Alive
    /\ wpc[w] = "lock"
    /\ lock = 0
    /\ lock' = w
    /\ wpc' = [wpc EXCEPT ![w] = "pop"]
    /\ UNCHANGED <<cli, inputs, side, pc, s_next, s_timer, queue,
                   maybe_task, spawned, joined, c_timer, log>>

\* mutant of PopSome: the guard lives on through the evaluation
PopSome_HoldsGuard(w) ==
    /\ pc # "aborted"
    /\ wpc[w] = "pop"
    /\ pop_front(queue).item # None
    /\ maybe_task' = [maybe_task EXCEPT ![w] = pop_front(queue).item]
    /\ queue' = pop_front(queue).rest
    /\ wpc' = [wpc EXCEPT ![w] = IF simulate_load THEN "sleep" ELSE "run"]
    /\ log' = [log EXCEPT !.popped = Append(@, pop_front(queue).item[1]),
                          !.c_in_timer = @ /\ c_timer = "running"]
    /\ UNCHANGED <<cli, inputs, side, pc, s_next, s_timer, spawned,
                   joined, c_timer, lock>>

\* queue_guard.pop_front() is Some(task); the guard is dropped at the end of
\* the block; match: sleep when simulate_load, then run
PopSome(w) ==
    /\ Alive
    /\ wpc[w] = "pop"
    /\ pop_front(queue).item # None
    /\ maybe_task' = [maybe_task EXCEPT ![w] = pop_front(queue).item]
    /\ queue' = pop_front(queue).rest
    /\ lock' = 0
    /\ wpc' = [wpc EXCEPT ![w] = IF simulate_load THEN "sleep" ELSE "run"]
    /\ log' = [log EXCEPT !.popped = Append(@, pop_front(queue).item[1]),
                          !.c_in_timer = @ /\ c_timer = "running"]
    /\ UNCHANGED <<cli, inputs, side, pc, s_next, s_timer, spawned,
                   joined, c_timer>>

\* mutant of PopNone: the worker waits for more work instead of leaving
PopNone_Retries(w) ==
    /\ pc # "aborted"
    /\ wpc[w] = "pop"
    /\ pop_front(queue).item = None
    /\ maybe_task' = [maybe_task EXCEPT ![w] = None]
    /\ queue' = pop_front(queue).rest
    /\ lock' = 0
    /\ wpc' = [wpc EXCEPT ![w] = "lock"]
    /\ log' = [log EXCEPT !.c_in_timer = @ /\ c_timer = "running"]
    /\ UNCHANGED <<cli, inputs, side, pc, s_next, s_timer,
                   spawned, joined, c_timer>>

\* queue_guard.pop_front() is None; the guard is dropped; match: break
PopNone(w) ==
    /\ Alive
    /\ wpc[w] = "pop"
    /\ pop_front(queue).item = None
    /\ maybe_task' = [maybe_task EXCEPT ![w] = None]
    /\ queue' = pop_front(queue).rest
    /\ lock' = 0
    /\ wpc' = [wpc EXCEPT ![w] = "exited"]
    /\ log' = [log EXCEPT !.c_in_timer = @ /\ c_timer = "running"]
    /\ UNCHANGED <<cli, inputs, side, pc, s_next, s_timer,
                   spawned, joined, c_timer>>

\* Duration::from_micros(100) of the worker closure
WorkerDelay == 100

\* mutant of Sleep: the worker goes on without sleeping
Sleep_NoDelay(w) ==
    /\ pc # "aborted"
    /\ wpc[w] = "sleep"
    /\ wpc' = [wpc EXCEPT ![w] = "run"]
    /\ UNCHANGED <<cli, inputs, side, pc, s_next, s_timer, queue,
                   lock, maybe_task, spawned, joined, c_timer, log>>

\* std::thread::sleep(Duration::from_micros(100));
Sleep(w) ==
    /\ Alive
    /\ wpc[w] = "sleep"
    /\ wpc' = [wpc EXCEPT ![w] = "run"]
    /\ log' = [log EXCEPT !.c_delays = @ + WorkerDelay]
    /\ UNCHANGED <<cli, inputs, side, pc, s_next, s_timer, queue,
                   lock, maybe_task, spawned, joined, c_timer>>

\* mutant of Run: the evaluation runs under the guard, which a panic poisons
Run_PanicsUnderLock(w) ==
    /\ pc # "aborted"
    /\ wpc[w] = "run"
    /\ LET outcome == run(maybe_task[w][1], overflow_checks)
       IN IF outcome.res = "Panic"
          THEN /\ wpc' = [wpc EXCEPT ![w] = "panicked"]
               /\ lock' = w
               /\ log' = [log EXCEPT !.c_in_timer = @ /\ c_timer = "running"]
          ELSE /\ wpc' = [wpc EXCEPT ![w] = "lock"]
               /\ lock' = lock
               /\ log' = [log EXCEPT
                            !.c_evaluated = @ (+) SetToBag({maybe_task[w][1]}),
                            !.c_errors = Report(@, outcome),
                            !.c_in_timer = @ /\ c_timer = "running"]
    /\ maybe_task' = [maybe_task EXCEPT ![w] = None]
    /\ UNCHANGED <<cli, inputs, side, pc, s_next, s_timer, queue,
                   spawned, joined, c_timer>>

\* mutant of Run: a worker that sees the queue drained leaves without a pop
Run_LeavesWhenDrained(w) ==
    /\ pc # "aborted"
    /\ wpc[w] = "run"
    /\ LET outcome == run(maybe_task[w][1], overflow_checks)
       IN IF outcome.res = "Panic"
          THEN /\ wpc' = [wpc EXCEPT ![w] = "panicked"]
               /\ log' = [log EXCEPT !.c_in_timer = @ /\ c_timer = "running"]
          ELSE /\ wpc' = [wpc EXCEPT ![w] =
                             IF queue = <<>> THEN "exited" ELSE "lock"]
               /\ log' = [log EXCEPT
                            !.c_evaluated = @ (+) SetToBag({maybe_task[w][1]}),
                            !.c_errors = Report(@, outcome),
                            !.c_in_timer = @ /\ c_timer = "running"]
    /\ maybe_task' = [maybe_task EXCEPT ![w] = None]
    /\ UNCHANGED <<cli, inputs, side, pc, s_next, s_timer, queue,
                   lock, spawned, joined, c_timer>>

\* mutant of Run: an error ends the worker
Run_StopsOnError(w) ==
    /\ pc # "aborted"
    /\ wpc[w] = "run"
    /\ LET outcome == run(maybe_task[w][1], overflow_checks)
       IN IF outcome.res = "Panic"
          THEN /\ wpc' = [wpc EXCEPT ![w] = "panicked"]
               /\ log' = [log EXCEPT !.c_in_timer = @ /\ c_timer = "running"]
          ELSE /\ wpc' = [wpc EXCEPT ![w] =
                             IF outcome.res = "Err" THEN "exited" ELSE "lock"]
               /\ log' = [log EXCEPT
                            !.c_evaluated = @ (+) SetToBag({maybe_task[w][1]}),
                            !.c_errors = Report(@, outcome),
                            !.c_in_timer = @ /\ c_timer = "running"]
    /\ maybe_task' = [maybe_task EXCEPT ![w] = None]
    /\ UNCHANGED <<cli, inputs, side, pc, s_next, s_timer, queue,
                   lock, spawned, joined, c_timer>>

\* if let Err(e) = task.run(..) { eprintln!(..) }; a panic ends the thread
Run(w) ==
    /\ Alive
    /\ wpc[w] = "run"
    /\ LET outcome == run(maybe_task[w][1], overflow_checks)
       IN IF outcome.res = "Panic"
          THEN /\ wpc' = [wpc EXCEPT ![w] = "panicked"]
               /\ log' = [log EXCEPT !.c_in_timer = @ /\ c_timer = "running"]
          ELSE /\ wpc' = [wpc EXCEPT ![w] = "lock"]
               /\ log' = [log EXCEPT
                            !.c_evaluated = @ (+) SetToBag({maybe_task[w][1]}),
                            !.c_errors = Report(@, outcome),
                            !.c_in_timer = @ /\ c_timer = "running"]
    /\ maybe_task' = [maybe_task EXCEPT ![w] = None]
    /\ UNCHANGED <<cli, inputs, side, pc, s_next, s_timer, queue,
                   lock, spawned, joined, c_timer>>

Next ==
    \/ SerialStart
    \/ SerialNext
    \/ SerialSleep
    \/ SerialRun
    \/ SerialStop
    \/ ConcQueue
    \/ ConcStart
    \/ Spawn
    \/ SpawnDone
    \/ JoinOk
    \/ JoinPanicked
    \/ ConcStop
    \/ \E w \in Workers : Lock(w)
    \/ \E w \in Workers : PopSome(w)
    \/ \E w \in Workers : PopNone(w)
    \/ \E w \in Workers : Sleep(w)
    \/ \E w \in Workers : Run(w)

Spec == Init /\ [][Next]_vars

\* Scheduling: the operating system keeps running every thread that can run.
Main ==
    \/ SerialStart \/ SerialNext \/ SerialSleep \/ SerialRun \/ SerialStop
    \/ ConcQueue \/ ConcStart \/ Spawn \/ SpawnDone \/ JoinOk \/ JoinPanicked
    \/ ConcStop

Worker(w) == Lock(w) \/ PopSome(w) \/ PopNone(w) \/ Sleep(w) \/ Run(w)

FairInit == Init /\ Len(tasks) <= MaxLiveBatch

FairSpec ==
    /\ FairInit
    /\ [][Next]_vars
    /\ WF_vars(Main)
    /\ \A w \in Workers : WF_vars(Worker(w))

(***************************************************************************)
(* One task evaluated on its own, as the tests of task.rs do.              *)
(***************************************************************************)
I32Samples == (-MaxOperand..MaxOperand) \cup {I32Min, I32Max}

\* 21 and 93 are the first n whose factorial and fibonacci leave the u64 width
U32Samples == (0..MaxOperand) \cup {7, 20, 21, 30, 92, 93}

U64Samples == 0..MaxOperand

EvalTasks ==
    {Compute(a, b) : a \in I32Samples, b \in I32Samples}
    \cup {Fibonacci(n) : n \in U32Samples}
    \cup {Divide(a, b) : a \in I32Samples \cup {10}, b \in I32Samples}
    \cup {Multiply(a, b) : a \in I32Samples, b \in I32Samples}
    \cup {Factorial(n) : n \in U32Samples}
    \cup {PrimeCheck(n) : n \in U32Samples}
    \cup {ModuloExponentiation(b, e, m) :
            b \in U64Samples, e \in U64Samples, m \in U64Samples \cup {5}}

EvalInit ==
    /\ overflow_checks \in BOOLEAN
    /\ subject \in {Some(t) : t \in EvalTasks}
    /\ tasks = <<>>
    /\ thread_count = 1
    /\ simulate_load = FALSE
    /\ pc = "evaluate"
    /\ batch_size = 0
    /\ cli = NoCli
    /\ Fresh

\* let r = task.run();
Evaluate ==
    /\ pc = "evaluate"
    /\ returned' = Some(run(subject[1], overflow_checks))
    /\ pc' = "evaluated"
    /\ UNCHANGED <<cli, inputs, s_next, s_timer, queue, lock, wpc, maybe_task, spawned,
                   joined, c_timer, log, batch_size, rng, stream, building,
                   generated, subject>>

SpecEval == EvalInit /\ [][Evaluate]_vars

(***************************************************************************)
(* generate_tasks.  StdRng::seed_from_u64(42) yields one fixed stream of    *)
(* values; stream holds as much of it as has been drawn, so a later call    *)
(* seeded alike draws the same values again.                                *)
(***************************************************************************)
\* the values rng.gen_range(lo..hi) can return
gen_range(lo, hi) == lo..(hi - 1)

\* The operand draws of a task are explored at the two ends of their ranges.
Low(S) == CHOOSE x \in S : \A y \in S : x <= y
High(S) == CHOOSE x \in S : \A y \in S : y <= x

\* the value the stream yields at position pos, among those of S
Draw(pos, S) == IF pos <= Len(stream) THEN {stream[pos]} ELSE S

\* mutant of OperandRanges: Factorial draws n from 0..29
OperandRanges_WideFactorial(task_type) ==
    CASE task_type = 0 -> <<gen_range(1, 100), gen_range(1, 100)>>
      [] task_type = 1 -> <<gen_range(1, 30)>>
      [] task_type = 2 -> <<gen_range(1, 100), gen_range(1, 99)>>
      [] task_type = 3 -> <<gen_range(1, 100), gen_range(1, 100)>>
      [] task_type = 4 -> <<gen_range(0, 30)>>
      [] task_type = 5 -> <<gen_range(1, 100)>>
      [] task_type = 6 -> <<gen_range(2, 20), gen_range(2, 10), gen_range(1, 50)>>

\* the ranges of the operand draws of each variant, in the order of the draws
OperandRanges(task_type) ==
    CASE task_type = 0 -> <<gen_range(1, 100), gen_range(1, 100)>>
      [] task_type = 1 -> <<gen_range(1, 30)>>
      [] task_type = 2 -> <<gen_range(1, 100), gen_range(1, 99)>>
      [] task_type = 3 -> <<gen_range(1, 100), gen_range(1, 100)>>
      [] task_type = 4 -> <<gen_range(0, 20)>>
      [] task_type = 5 -> <<gen_range(1, 100)>>
      [] task_type = 6 -> <<gen_range(2, 20), gen_range(2, 10), gen_range(1, 50)>>

\* the operand draws of one task from position pos on, one for each range:
\* the values already in the stream, or else values the ranges allow
Draws(pos, ranges) ==
    IF pos <= Len(stream)
    THEN {SubSeq(stream, pos, pos + Len(ranges) - 1)}
    ELSE {[i \in DOMAIN ranges |-> Low(ranges[i])],
          [i \in DOMAIN ranges |-> High(ranges[i])]}

\* mutant of MakeTask: the shift of denominator and modulus goes the wrong way
MakeTask_ShiftsDown(task_type, d) ==
    CASE task_type = 0 -> Compute(d[1], d[2])
      [] task_type = 1 -> Fibonacci(d[1])
      [] task_type = 2 -> Divide(d[1], d[2] - 1)
      [] task_type = 3 -> Multiply(d[1], d[2])
      [] task_type = 4 -> Factorial(d[1])
      [] task_type = 5 -> PrimeCheck(d[1])
      [] task_type = 6 -> ModuloExponentiation(d[1], d[2], d[3] - 1)

\* the match on task_type, given the operand draws d
MakeTask(task_type, d) ==
    CASE task_type = 0 -> Compute(d[1], d[2])
      [] task_type = 1 -> Fibonacci(d[1])
      [] task_type = 2 -> Divide(d[1], d[2] + 1)
      [] task_type = 3 -> Multiply(d[1], d[2])
      [] task_type = 4 -> Factorial(d[1])
      [] task_type = 5 -> PrimeCheck(d[1])
      [] task_type = 6 -> ModuloExponentiation(d[1], d[2], d[3] + 1)

GenInit ==
    /\ overflow_checks \in BOOLEAN
    /\ simulate_load \in BOOLEAN
    /\ batch_size \in 0..MaxGen
    /\ tasks = <<>>
    /\ thread_count = 1
    /\ pc = "generate"
    /\ subject = None
    /\ cli = NoCli
    /\ Fresh

\* mutant of GenSeed: the generator is seeded from entropy, a stream of its own
GenSeed_FromEntropy ==
    /\ pc = "generate"
    /\ building' = <<>>
    /\ rng' = 0
    /\ stream' = <<>>
    /\ pc' = "gen_loop"
    /\ UNCHANGED <<cli, inputs, s_next, s_timer, queue, lock, wpc, maybe_task, spawned,
                   joined, c_timer, log, batch_size, generated, subject, returned>>

\* let mut tasks = Vec::new(); let mut rng = StdRng::seed_from_u64(42);
GenSeed ==
    /\ pc = "generate"
    /\ building' = <<>>
    /\ rng' = 0
    /\ pc' = "gen_loop"
    /\ UNCHANGED <<cli, inputs, s_next, s_timer, queue, lock, wpc, maybe_task, spawned,
                   joined, c_timer, log, batch_size, stream, generated, subject,
                   returned>>

\* one iteration of for _ in 0..batch_size: draw the variant and its operands,
\* push the task
GenTask ==
    /\ pc = "gen_loop"
    /\ Len(building) < batch_size
    /\ \E task_type \in Draw(rng + 1, gen_range(0, 7)) :
         \E d \in Draws(rng + 2, OperandRanges(task_type)) :
            LET drawn == SubSeq(stream, 1, rng) \o <<task_type>> \o d
            IN  /\ building' = Append(building, MakeTask(task_type, d))
                /\ rng' = Len(drawn)
                /\ stream' = IF Len(drawn) >= Len(stream) THEN drawn ELSE stream
    /\ UNCHANGED <<cli, inputs, pc, s_next, s_timer, queue, lock, wpc, maybe_task,
                   spawned, joined, c_timer, log, batch_size, generated, subject,
                   returned>>

\* the loop is over: generate_tasks returns the vector
GenReturn ==
    /\ pc = "gen_loop"
    /\ Len(building) >= batch_size
    /\ generated' = Append(generated, building)
    /\ tasks' = building
    /\ pc' = "generated"
    /\ UNCHANGED <<cli, overflow_checks, thread_count, simulate_load, s_next, s_timer,
                   queue, lock, wpc, maybe_task, spawned, joined, c_timer, log,
                   batch_size, rng, stream, building, subject, returned>>

\* the caller calls generate_tasks(batch_size) a second time
GenAgain ==
    /\ pc = "generated"
    /\ Len(generated) < 2
    /\ pc' = "generate"
    /\ UNCHANGED <<cli, inputs, side, s_next, s_timer, queue, lock, wpc, maybe_task,
                   spawned, joined, c_timer, log>>

\* main, having called generate_tasks once, goes on to
\* execute_serially(&tasks, simulate_load)
GenProceed ==
    /\ pc = "generated"
    /\ Len(generated) = 1
    /\ pc' = "serial_start"
    /\ UNCHANGED <<cli, inputs, side, s_next, s_timer, queue, lock, wpc, maybe_task,
                   spawned, joined, c_timer, log>>

GenNext ==
    \/ GenSeed
    \/ GenTask
    \/ GenReturn
    \/ GenAgain
    \/ GenProceed
    \/ SerialStart
    \/ SerialNext
    \/ SerialSleep
    \/ SerialRun
    \/ SerialStop
    \/ ConcQueue
    \/ ConcStart
    \/ Spawn
    \/ SpawnDone
    \/ JoinOk
    \/ ConcStop
    \/ \E w \in Workers : Lock(w)
    \/ \E w \in Workers : PopSome(w)
    \/ \E w \in Workers : PopNone(w)
    \/ \E w \in Workers : Sleep(w)
    \/ \E w \in Workers : Run(w)

SpecGen == GenInit /\ [][GenNext]_vars

(***************************************************************************)
(* Every task generate_tasks can push, evaluated once in either build.      *)
(***************************************************************************)
\* every vector of operand draws the ranges allow
AllDraws(ranges) ==
    CASE Len(ranges) = 1 -> {<<x>> : x \in ranges[1]}
      [] Len(ranges) = 2 -> {<<x, y>> : x \in ranges[1], y \in ranges[2]}
      [] Len(ranges) = 3 ->
            {<<x, y, z>> : x \in ranges[1], y \in ranges[2], z \in ranges[3]}

\* the tasks the arm of task_type can build
GeneratableTasks(task_type) ==
    {MakeTask(task_type, d) : d \in AllDraws(OperandRanges(task_type))}

GenEvalInit ==
    /\ overflow_checks \in BOOLEAN
    /\ \E task_type \in gen_range(0, 7) :
          subject \in {Some(t) : t \in GeneratableTasks(task_type)}
    /\ tasks = <<>>
    /\ thread_count = 1
    /\ simulate_load = FALSE
    /\ pc = "evaluate"
    /\ batch_size = 0
    /\ cli = NoCli
    /\ Fresh

SpecGenEval == GenEvalInit /\ [][Evaluate]_vars

(***************************************************************************)
(* compare_durations and the helpers, each called on its own as the tests  *)
(* of helpers.rs do.  subject is the call, returned what it yields.        *)
(***************************************************************************)
\* mutant of compare_durations: the quotients are the wrong way round
compare_durations_Inverted(serial, concurrent) ==
    IF serial > concurrent
    THEN [line |-> "concurrent faster", num |-> concurrent, den |-> serial]
    ELSE IF concurrent > serial
    THEN [line |-> "serial faster", num |-> serial, den |-> concurrent]
    ELSE [line |-> "equal", num |-> 0, den |-> 0]

\* The summary line printed, and the quotient num / den of the two
\* as_secs_f64() values it reports (a quotient by 0.0 is the float inf).
compare_durations(serial, concurrent) ==
    IF serial > concurrent
    THEN [line |-> "concurrent faster", num |-> serial, den |-> concurrent]
    ELSE IF concurrent > serial
    THEN [line |-> "serial faster", num |-> concurrent, den |-> serial]
    ELSE [line |-> "equal", num |-> 0, den |-> 0]

CompareCalls ==
    {[fn |-> "compare_durations", serial |-> a, concurrent |-> b] :
        a \in 0..MaxMillis, b \in 0..MaxMillis}

ModExpCalls ==
    {[fn |-> "mod_exp", base |-> b, exp |-> e, modulus |-> m] :
        b \in 0..MaxModExp, e \in 0..MaxModExp, m \in 0..MaxModExp}

FibonacciCalls == {[fn |-> "fibonacci", n |-> n] : n \in 0..MaxFib}

CallInit ==
    /\ overflow_checks \in BOOLEAN
    /\ subject \in {Some(c) : c \in CompareCalls \cup ModExpCalls \cup FibonacciCalls}
    /\ tasks = <<>>
    /\ thread_count = 1
    /\ simulate_load = FALSE
    /\ pc = "call"
    /\ batch_size = 0
    /\ cli = NoCli
    /\ Fresh

\* compare_durations(serial_duration, concurrent_duration);
CallCompare ==
    /\ pc = "call"
    /\ subject[1].fn = "compare_durations"
    /\ returned' = Some(compare_durations(subject[1].serial, subject[1].concurrent))
    /\ pc' = "called"
    /\ UNCHANGED <<cli, inputs, s_next, s_timer, queue, lock, wpc, maybe_task,
                   spawned, joined, c_timer, log, batch_size, rng, stream,
                   building, generated, subject>>

\* mod_exp(base, exp, modulus)
CallModExp ==
    /\ pc = "call"
    /\ subject[1].fn = "mod_exp"
    /\ returned' = Some(mod_exp(subject[1].base, subject[1].exp, subject[1].modulus))
    /\ pc' = "called"
    /\ UNCHANGED <<cli, inputs, s_next, s_timer, queue, lock, wpc, maybe_task,
                   spawned, joined, c_timer, log, batch_size, rng, stream,
                   building, generated, subject>>

\* fibonacci(n); an addition that leaves the u64 width panics under overflow
\* checks
CallFibonacci ==
    /\ pc = "call"
    /\ subject[1].fn = "fibonacci"
    /\ returned' = Some([v |-> fibonacci(subject[1].n).v,
                         panics |-> fibonacci(subject[1].n).ovf /\ overflow_checks])
    /\ pc' = "called"
    /\ UNCHANGED <<cli, inputs, s_next, s_timer, queue, lock, wpc, maybe_task,
                   spawned, joined, c_timer, log, batch_size, rng, stream,
                   building, generated, subject>>

CallNext == CallCompare \/ CallModExp \/ CallFibonacci

SpecCall == CallInit /\ [][CallNext]_vars

(***************************************************************************)
(* main's prompting and prompt_for_u32.  A line is the sequence of the     *)
(* characters read_line appends to input.                                  *)
(***************************************************************************)
Digits == <<"0", "1", "2", "3", "4", "5", "6", "7", "8", "9">>

IsDigit(c) == \E i \in DOMAIN Digits : Digits[i] = c

DigitValue(c) == (CHOOSE i \in DOMAIN Digits : Digits[i] = c) - 1

Whitespace == {" ", "\n"}

RECURSIVE trim_start(_)
trim_start(s) ==
    IF s # <<>> /\ Head(s) \in Whitespace THEN trim_start(Tail(s)) ELSE s

RECURSIVE trim_end(_)
trim_end(s) ==
    IF s # <<>> /\ s[Len(s)] \in Whitespace
    THEN trim_end(SubSeq(s, 1, Len(s) - 1))
    ELSE s

\* str::trim
trim(s) == trim_end(trim_start(s))

\* u32::MAX / 10: a number above it has no room for one more digit
U32MaxDiv10 == 429496729

ParseErr == [ok |-> FALSE, num |-> 0]

\* the digits of s added to acc, one checked multiplication and addition each
RECURSIVE parse_digits(_, _)
parse_digits(s, acc) ==
    IF s = <<>> THEN [ok |-> TRUE, num |-> acc]
    ELSE IF ~IsDigit(Head(s)) THEN ParseErr
    ELSE IF acc > U32MaxDiv10 \/ (acc = U32MaxDiv10 /\ DigitValue(Head(s)) > 5)
         THEN ParseErr
    ELSE parse_digits(Tail(s), acc * 10 + DigitValue(Head(s)))

\* str::parse::<u32>: an optional "+", then at least one digit, digits only
parse_u32(s) ==
    IF s = <<>> THEN ParseErr
    ELSE IF Head(s) = "+"
         THEN (IF Tail(s) = <<>> THEN ParseErr ELSE parse_digits(Tail(s), 0))
    ELSE parse_digits(s, 0)

\* the characters typed
Alphabet == {" ", "+", "-", "0", "1", "2", "3", "a"}

\* a number too large for a u32
Overflowing == <<"9", "9", "9", "9", "9", "9", "9", "9", "9", "9", "9">>

\* What read_line can put into input: a typed line with its newline, or
\* nothing at the end of the input.
Lines ==
    {t \o <<"\n">> : t \in SeqsUpTo(Alphabet, MaxLine) \cup {Overflowing}}
    \cup {<<>>}

CliInit ==
    /\ overflow_checks = FALSE
    /\ tasks = <<>>
    /\ thread_count = 0
    /\ simulate_load = FALSE
    /\ batch_size = 0
    /\ subject = None
    /\ pc = "read_line"
    /\ cli \in {[site |-> "mode", max_threads |-> m, input |-> <<>>, mode |-> 0,
                 printed |-> "Enter choice:"] : m \in 1..MaxCpus}
    /\ Fresh

\* io::stdin().read_line(&mut input).is_err(): "Failed to read input", continue
ReadLineFails ==
    /\ pc = "read_line"
    /\ cli' = [cli EXCEPT !.printed = "Failed to read input. Try again."]
    /\ UNCHANGED <<inputs, side, pc, s_next, s_timer, queue, lock, wpc,
                   maybe_task, spawned, joined, c_timer, log>>

\* read_line has read a line
ReadLine ==
    /\ pc = "read_line"
    /\ \E line \in Lines : cli' = [cli EXCEPT !.input = line]
    /\ pc' = "parse"
    /\ UNCHANGED <<inputs, side, s_next, s_timer, queue, lock, wpc,
                   maybe_task, spawned, joined, c_timer, log>>

\* Every iteration of the loop of prompt_for_u32 starts from a new, empty
\* input, so the actions below leave input empty.

\* match input.trim().parse::<u32>(): the message of a rejected line, "" for
\* Ok(num) with num > 0
Rejection(input) ==
    LET r == parse_u32(trim(input))
    IN  IF r.ok /\ r.num > 0 THEN ""
        ELSE IF r.ok THEN "Please enter a number greater than 0."
        ELSE "Invalid number. Try again."

\* the number prompt_for_u32 returns for an accepted line
Entered(input) == parse_u32(trim(input)).num

\* the mode loop of main on what prompt_for_u32 made of the line
EnterMode ==
    /\ pc = "parse"
    /\ cli.site = "mode"
    /\ pc' = "read_line"
    /\ IF Rejection(cli.input) # ""
       THEN /\ cli' = [cli EXCEPT !.input = <<>>, !.printed = Rejection(cli.input)]
            /\ UNCHANGED simulate_load
       ELSE IF Entered(cli.input) = 1 \/ Entered(cli.input) = 2
       THEN /\ cli' = [cli EXCEPT !.input = <<>>, !.mode = Entered(cli.input), !.site = "batch_size"]
            /\ simulate_load' = (Entered(cli.input) = 2)
       ELSE /\ cli' = [cli EXCEPT !.input = <<>>, !.printed = "Invalid mode. Please enter 1 or 2."]
            /\ UNCHANGED simulate_load
    /\ UNCHANGED <<overflow_checks, tasks, thread_count, side, s_next, s_timer,
                   queue, lock, wpc, maybe_task, spawned, joined, c_timer, log>>

\* let batch_size = prompt_for_u32(..)
EnterBatchSize ==
    /\ pc = "parse"
    /\ cli.site = "batch_size"
    /\ pc' = "read_line"
    /\ IF Rejection(cli.input) # ""
       THEN /\ cli' = [cli EXCEPT !.input = <<>>, !.printed = Rejection(cli.input)]
            /\ UNCHANGED batch_size
       ELSE /\ cli' = [cli EXCEPT !.input = <<>>, !.site = "thread_count"]
            /\ batch_size' = Entered(cli.input)
    /\ UNCHANGED <<inputs, rng, stream, building, generated, subject, returned,
                   s_next, s_timer, queue, lock, wpc, maybe_task, spawned,
                   joined, c_timer, log>>

\* mutant of EnterThreadCount: the count is not held against max_threads
EnterThreadCount_Unbounded ==
    /\ pc = "parse"
    /\ cli.site = "thread_count"
    /\ IF Rejection(cli.input) # ""
       THEN /\ cli' = [cli EXCEPT !.input = <<>>, !.printed = Rejection(cli.input)]
            /\ pc' = "read_line"
            /\ UNCHANGED thread_count
       ELSE /\ cli' = [cli EXCEPT !.input = <<>>, !.site = "done"]
            /\ thread_count' = Entered(cli.input)
            /\ pc' = "generate"
    /\ UNCHANGED <<overflow_checks, tasks, simulate_load, side, s_next, s_timer,
                   queue, lock, wpc, maybe_task, spawned, joined, c_timer, log>>

\* the thread_count loop of main; with a count in range main goes on to
\* generate_tasks(batch_size)
EnterThreadCount ==
    /\ pc = "parse"
    /\ cli.site = "thread_count"
    /\ IF Rejection(cli.input) # ""
       THEN /\ cli' = [cli EXCEPT !.input = <<>>, !.printed = Rejection(cli.input)]
            /\ pc' = "read_line"
            /\ UNCHANGED thread_count
       ELSE IF Entered(cli.input) > 0 /\ Entered(cli.input) <= cli.max_threads
       THEN /\ cli' = [cli EXCEPT !.input = <<>>, !.site = "done"]
            /\ thread_count' = Entered(cli.input)
            /\ pc' = "generate"
       ELSE /\ cli' = [cli EXCEPT !.input = <<>>, !.printed = "Please enter a number between 1 and max."]
            /\ pc' = "read_line"
            /\ UNCHANGED thread_count
    /\ UNCHANGED <<overflow_checks, tasks, simulate_load, side, s_next, s_timer,
                   queue, lock, wpc, maybe_task, spawned, joined, c_timer, log>>

CliNext ==
    \/ ReadLineFails
    \/ ReadLine
    \/ EnterMode
    \/ EnterBatchSize
    \/ EnterThreadCount

SpecCli == CliInit /\ [][CliNext]_vars

(***************************************************************************)
(* Properties of the two runners.                                          *)
(***************************************************************************)
Range(q) == {q[i] : i \in DOMAIN q}

\* the multiset of the items of a sequence
SeqToBag(q) == [x \in Range(q) |-> Cardinality({i \in DOMAIN q : q[i] = x})]

\* the positions of the batch whose evaluation ends in res (and msg)
Ending(res, msg) ==
    {i \in DOMAIN tasks : LET o == run(tasks[i], overflow_checks)
                          IN  o.res = res /\ o.msg = msg}

Crashing == Ending("Panic", "")

\* how many items of the batch end in each error
ErrorsOfBatch ==
    [m \in {DivisionByZero, ZeroModulus} |-> Cardinality(Ending("Err", m))]

\* C1: in a concurrent run the items popped and the items still queued are
\* together the batch, each item once; when execute_concurrently returns, the
\* multiset of popped items is the batch and nothing is left in the queue.
C1_PoppedIsBatch ==
    /\ c_timer # "unread" =>
          SeqToBag(log.popped) (+) SeqToBag(queue) = SeqToBag(tasks)
    /\ pc = "done" => SeqToBag(log.popped) = SeqToBag(tasks) /\ queue = <<>>

C1_Witness ==
    /\ pc = "done"
    /\ thread_count >= 2
    /\ Len(tasks) >= 3
    /\ tasks[1] = tasks[3]
    /\ tasks[1] # tasks[2]

\* C2: a concurrent run whose tasks do not crash terminates under fair
\* scheduling: every worker leaves its loop, every handle is joined, and
\* execute_concurrently returns with the queue empty; and no state but the
\* final ones (returned, or aborted by a panic) is without a next step.
C2_Terminates ==
    /\ (pc = "conc_queue" /\ Crashing = {}) ~>
          /\ pc = "done"
          /\ queue = <<>>
          /\ joined = thread_count
          /\ \A w \in 1..thread_count : wpc[w] = "exited"
    /\ [](pc \notin {"done", "aborted"} => ENABLED Next)

C2_Witness ==
    /\ pc = "done"
    /\ Crashing = {}
    /\ thread_count > Len(tasks)
    /\ \A w \in 1..thread_count : wpc[w] = "exited"

\* C3: at most one worker holds the queue lock, the holder is the worker
\* inside pop_front, and a worker that sleeps or evaluates does not hold it.
C3_LockOnlyForPop ==
    /\ Cardinality({w \in Workers : wpc[w] = "pop"}) <= 1
    /\ \A w \in Workers : (lock = w) <=> (wpc[w] = "pop")
    /\ \A w \in Workers : wpc[w] \in {"sleep", "run"} => lock # w

C3_Witness ==
    \E w, v \in Workers :
        /\ wpc[w] = "pop" /\ lock = w
        /\ wpc[v] \in {"sleep", "run"}

\* C4: an Err of run never stops processing: a worker leaves its loop only
\* on an empty queue, a returned concurrent run has evaluated the whole batch
\* and reported every failing item, and so has a finished serial run.
C4_ErrorsDoNotStop ==
    /\ \A w \in Workers : wpc[w] = "exited" => queue = <<>>
    /\ pc = "done" =>
          /\ log.c_evaluated = SeqToBag(tasks)
          /\ log.c_errors = ErrorsOfBatch
    /\ s_timer = "stopped" =>
          /\ Len(log.s_evaluated) = Len(tasks)
          /\ log.s_errors = ErrorsOfBatch

C4_Witness ==
    /\ pc = "done"
    /\ s_timer = "stopped"
    /\ Len(tasks) >= 3
    /\ 1 \in Ending("Err", DivisionByZero)
    /\ 2 \in Ending("Err", ZeroModulus)
    /\ 3 \in Ending("Ok", "")

\* C5: on the same batch, whatever thread_count is, a serial and a concurrent
\* run that both return have processed the same number of items and reported
\* each error the same number of times.
C5_SameCounts ==
    (pc = "done" /\ s_timer = "stopped") =>
        /\ Len(log.s_evaluated) = BagCardinality(log.c_evaluated)
        /\ log.s_errors = log.c_errors

C5_Witness ==
    /\ pc = "done"
    /\ s_timer = "stopped"
    /\ thread_count >= 2
    /\ log.c_errors[DivisionByZero] >= 1
    /\ log.c_errors[ZeroModulus] >= 1
    /\ BagCardinality(log.c_evaluated) >= 3

\* C7: execute_concurrently does not return when a worker has panicked: every
\* handle joined belongs to a worker that left its loop, and the timer is
\* stopped and the duration returned only with no worker panicked.
C7_CrashIsFatal ==
    /\ \A w \in 1..joined : wpc[w] = "exited"
    /\ (pc = "done" \/ c_timer = "stopped") =>
          \A w \in Workers : wpc[w] # "panicked"

C7_Witness ==
    /\ pc = "aborted"
    /\ c_timer = "running"
    /\ joined >= 1
    /\ wpc[joined + 1] = "panicked"

\* C8: execute_serially evaluates the items in batch order, each once, on the
\* main thread alone and inside the timer: the k-th evaluation is of item k,
\* nothing is evaluated before the timer is read, and the timer is stopped
\* only when every item has been evaluated, errors or not.
C8_SerialInOrder ==
    /\ \A k \in DOMAIN log.s_evaluated : log.s_evaluated[k] = k
    /\ log.s_in_timer
    /\ s_timer = "unread" => log.s_evaluated = <<>>
    /\ s_timer = "running" =>
          /\ Len(log.s_evaluated) \in {s_next - 1, s_next}
          /\ \A w \in Workers : wpc[w] = "unspawned"
    /\ s_timer = "stopped" => Len(log.s_evaluated) = Len(tasks)

C8_Witness ==
    /\ s_timer = "stopped"
    /\ pc = "conc_queue"
    /\ Len(tasks) >= 3
    /\ 1 \in Ending("Err", DivisionByZero)
    /\ log.s_evaluated = <<1, 2, 3>>

\* C6: run returns the division-by-zero error exactly for a Divide whose
\* denominator is 0, the zero-modulus error exactly for a ModuloExponentiation
\* whose modulus is 0, and Ok for every other task; a call that returns an
\* error has invoked no helper.
C6_RunResults ==
    returned # None =>
        LET t == subject[1]
            r == returned[1]
            zero_denominator == t.kind = "Divide" /\ t.denominator = 0
            zero_modulus == t.kind = "ModuloExponentiation" /\ t.modulus = 0
        IN  /\ (r.res = "Err" /\ r.msg = DivisionByZero) <=> zero_denominator
            /\ (r.res = "Err" /\ r.msg = ZeroModulus) <=> zero_modulus
            /\ ~zero_denominator /\ ~zero_modulus => r.res = "Ok"
            /\ r.res = "Err" => r.calls = {}

\* a build without overflow checks has evaluated i32::MIN / -1
C6_Witness ==
    /\ ~overflow_checks
    /\ subject = Some(Divide(I32Min, -1))
    /\ returned # None
    /\ returned[1].res = "Panic"

\* the batches generate_tasks has built or returned so far
Batches == Range(generated) \cup {building, tasks}

\* the operand ranges of the generated variants
InRange(t) ==
    CASE t.kind = "Compute" -> t.a \in 1..99 /\ t.b \in 1..99
      [] t.kind = "Fibonacci" -> t.n \in 1..29
      [] t.kind = "Divide" -> t.numerator \in 1..99 /\ t.denominator \in 2..99
      [] t.kind = "Multiply" -> t.a \in 1..99 /\ t.b \in 1..99
      [] t.kind = "Factorial" -> t.n \in 0..19
      [] t.kind = "PrimeCheck" -> t.n \in 1..99
      [] t.kind = "ModuloExponentiation" ->
            t.base \in 2..19 /\ t.exponent \in 2..9 /\ t.modulus \in 2..50

\* C9: generate_tasks is deterministic and length-exact: every batch it
\* returns has exactly batch_size items, and two calls with the same
\* batch_size return the same sequence of tasks.
C9_Deterministic ==
    /\ \A i \in DOMAIN generated : Len(generated[i]) = batch_size
    /\ \A i, j \in DOMAIN generated : generated[i] = generated[j]

C9_Witness ==
    /\ Len(generated) = 2
    /\ batch_size >= 2
    /\ generated[1][1] # generated[1][2]
    /\ generated[2][2].kind = "ModuloExponentiation"

\* C10: every generated task has its operands in range, with a denominator
\* in 2..99 and a modulus in 2..50; none evaluates to an error, and the
\* serial and the concurrent run over a generated batch report no error.
C10_GeneratedInRange ==
    /\ \A b \in Batches : \A t \in Range(b) :
          /\ InRange(t)
          /\ run(t, overflow_checks).res = "Ok"
    /\ log.s_errors = NoErrors
    /\ log.c_errors = NoErrors

C10_Witness ==
    /\ pc = "done"
    /\ s_timer = "stopped"
    /\ Len(tasks) >= 2
    /\ tasks[1].kind = "Divide" /\ tasks[1].denominator = 2
    /\ tasks[2].kind = "ModuloExponentiation" /\ tasks[2].modulus = 50
    /\ BagCardinality(log.c_evaluated) = 2

\* C11: compare_durations reports exactly one of three outcomes, decided by
\* the order of the two durations: concurrent faster when serial > concurrent,
\* serial faster when concurrent > serial, equal when they are the same; the
\* ratio reported with a faster runner is larger / smaller, so at least 1
\* (100 ms against 50 ms: concurrent faster, by 2).
C11_CompareOutcome ==
    (returned # None /\ subject[1].fn = "compare_durations") =>
        LET serial == subject[1].serial
            concurrent == subject[1].concurrent
            larger == IF serial > concurrent THEN serial ELSE concurrent
            smaller == IF serial > concurrent THEN concurrent ELSE serial
            r == returned[1]
        IN  /\ r.line \in {"concurrent faster", "serial faster", "equal"}
            /\ r.line = "concurrent faster" <=> serial > concurrent
            /\ r.line = "serial faster" <=> concurrent > serial
            /\ r.line = "equal" <=> serial = concurrent
            /\ r.line # "equal" =>
                  /\ r.num = larger /\ r.den = smaller
                  /\ r.num >= r.den
            /\ (serial = 100 /\ concurrent = 50) =>
                  r.line = "concurrent faster" /\ r.num = 2 * r.den

C11_Witness ==
    /\ returned # None
    /\ subject = Some([fn |-> "compare_durations", serial |-> 100, concurrent |-> 50])
    /\ returned[1].line = "concurrent faster"

\* C12: load simulation is applied alike in both runners.  With
\* simulate_load every evaluation of either runner is preceded by one delay
\* of the same length, so each finished run has slept batch size delays;
\* without it neither runner sleeps.  A worker sleeps after its pop, with
\* its task in hand and without the queue lock.
C12_LoadApplied ==
    LET started == s_next - (IF pc = "serial_sleep" THEN 1 ELSE 0)
        slept == Len(log.popped) - Cardinality({w \in Workers : wpc[w] = "sleep"})
    IN  /\ log.s_delays = IF simulate_load THEN SerialDelay * started ELSE 0
        /\ log.c_delays = IF simulate_load THEN WorkerDelay * slept ELSE 0
        /\ (pc = "serial_run" /\ simulate_load) =>
              log.s_delays = SerialDelay * (Len(log.s_evaluated) + 1)
        /\ \A w \in Workers :
              wpc[w] = "sleep" =>
                  simulate_load /\ lock # w /\ maybe_task[w] # None
        /\ \A w \in Workers :
              (wpc[w] = "run" /\ simulate_load) => log.c_delays >= WorkerDelay
        /\ s_timer = "stopped" =>
              log.s_delays = IF simulate_load THEN SerialDelay * Len(tasks) ELSE 0
        /\ pc = "done" =>
              log.c_delays = IF simulate_load THEN WorkerDelay * Len(tasks) ELSE 0
        /\ (pc = "done" /\ s_timer = "stopped") => log.s_delays = log.c_delays

C12_Witness ==
    /\ pc = "done"
    /\ s_timer = "stopped"
    /\ simulate_load
    /\ thread_count >= 2
    /\ Len(tasks) = 3
    /\ log.s_delays = 300
    /\ log.c_delays = 300

\* what each prompt of main accepts: a line that, trimmed, is a u32 above 0,
\* and for the mode 1 or 2, for the thread count at most max_threads
ValidEntry(site, input, max_threads) ==
    LET r == parse_u32(trim(input))
    IN  /\ r.ok
        /\ r.num >= 1
        /\ site = "mode" => r.num \in {1, 2}
        /\ site = "thread_count" => r.num <= max_threads

\* C13: the prompting loops hand no invalid value to the core.  When main
\* reaches generate_tasks the mode is 1 or 2, batch_size >= 1 and
\* 1 <= thread_count <= max_threads; a line that is not valid for its
\* prompt, or a failed read, leads to the same prompt again and leaves every
\* value entered so far as it was, and only a valid line moves main on.
C13_PromptsGuardCore ==
    /\ [](pc = "generate" =>
            /\ cli.mode \in {1, 2}
            /\ simulate_load = (cli.mode = 2)
            /\ batch_size >= 1
            /\ thread_count \in 1..cli.max_threads)
    /\ [](cli.site \in {"batch_size", "thread_count", "done"} => cli.mode \in {1, 2})
    /\ [](cli.site \in {"thread_count", "done"} => batch_size >= 1)
    /\ [][pc = "parse" =>
            IF ValidEntry(cli.site, cli.input, cli.max_threads)
            THEN cli'.site # cli.site
            ELSE /\ pc' = "read_line"
                 /\ cli'.site = cli.site
                 /\ cli'.mode = cli.mode
                 /\ cli'.printed \notin {"", "Enter choice:"}
                 /\ UNCHANGED <<simulate_load, batch_size, thread_count>>]_vars
    /\ [][(pc = "read_line" /\ pc' = "read_line") =>
            /\ cli'.site = cli.site
            /\ cli'.mode = cli.mode
            /\ UNCHANGED <<simulate_load, batch_size, thread_count>>]_vars

C13_Witness ==
    /\ pc = "generate"
    /\ cli.max_threads = 2
    /\ cli.printed = "Please enter a number between 1 and max."
    /\ cli.mode = 2
    /\ batch_size = 3
    /\ thread_count = 2

\* base ^ exp mod modulus by exp multiplications, for modulus >= 1
RECURSIVE PowMod(_, _, _)
PowMod(base, exp, modulus) ==
    IF exp = 0 THEN 1 % modulus
    ELSE (PowMod(base, exp - 1, modulus) * (base % modulus)) % modulus

U64Value(x) == x[1] + x[2] * Limb

\* C15: fibonacci returns the sequence its test asserts, for every n in
\* 0..30: 0, 1, 2 for n = 0, 1, 2, and the sum of the two values before for
\* n >= 3, so 21 for n = 7, 987 for n = 15 and 1346269 for n = 30.
C15_FibonacciSequence ==
    (returned # None /\ subject[1].fn = "fibonacci" /\ subject[1].n <= 30) =>
        LET n == subject[1].n
            value == U64Value(returned[1].v)
            Before(k) == U64Value(fibonacci(n - k).v)
        IN  /\ ~returned[1].panics
            /\ returned[1].v[3] = 0 /\ returned[1].v[4] = 0
            /\ n = 0 => value = 0
            /\ n = 1 => value = 1
            /\ n = 2 => value = 2
            /\ n >= 3 => value = Before(1) + Before(2)
            /\ n = 7 => value = 21
            /\ n = 15 => value = 987
            /\ n = 30 => value = 1346269

C15_Witness ==
    /\ returned # None
    /\ overflow_checks
    /\ subject = Some([fn |-> "fibonacci", n |-> 30])
    /\ U64Value(returned[1].v) = 1346269

\* the workers that have left their loop
Exited == {w \in Workers : wpc[w] = "exited"}

\* C16: a worker leaves its loop if and only if a pop of its own returned
\* empty.  A pop on the empty queue returns at once and ends the worker; a
\* pop that returned a task is followed, after the evaluation, by another
\* pop; a worker that has seen the queue empty never pops again.  When
\* execute_concurrently returns, every worker has seen empty once, so the
\* pops number batch size + thread_count.
C16_ExitOnEmptyPop ==
    /\ [][\A w \in Workers :
            /\ (wpc[w] # "exited" /\ wpc'[w] = "exited") =>
                  wpc[w] = "pop" /\ lock = w /\ queue = <<>>
            /\ (wpc[w] = "pop" /\ wpc'[w] # "pop") =>
                  IF queue = <<>>
                  THEN wpc'[w] = "exited" /\ queue' = <<>>
                  ELSE wpc'[w] \in {"sleep", "run"} /\ queue' = Tail(queue)
            /\ (wpc[w] = "run" /\ wpc'[w] # "run") =>
                  wpc'[w] \in {"lock", "panicked"}
            /\ wpc[w] = "exited" => wpc'[w] = "exited"]_vars
    /\ [](\A w \in Workers :
            (Alive /\ wpc[w] = "pop" /\ queue = <<>>) => ENABLED PopNone(w))
    /\ [](\A w \in Exited : maybe_task[w] = None /\ lock # w)
    /\ [](pc = "done" =>
            /\ Exited = 1..thread_count
            /\ Len(log.popped) + Cardinality(Exited) = Len(tasks) + thread_count)

C16_Witness ==
    /\ pc = "done"
    /\ thread_count = 2
    /\ Len(log.popped) = 3
    /\ Exited = {1, 2}

\* C17: execute_concurrently loads the queue from the batch and starts the
\* timer before it spawns a worker, spawns exactly thread_count workers, and
\* stops the timer only after every one of them has left its loop; so every
\* pop and every evaluation falls between the start and the stop of the timer.
C17_TimerAroundWorkers ==
    /\ pc \in {"serial_start", "serial_loop", "serial_sleep", "serial_run",
                "conc_queue", "conc_start"} =>
          /\ spawned = 0
          /\ \A w \in Workers : wpc[w] = "unspawned"
          /\ log.popped = <<>> /\ log.c_evaluated = EmptyBag
    /\ pc = "conc_start" => queue = tasks /\ c_timer = "unread"
    /\ spawned > 0 => c_timer # "unread"
    /\ spawned <= thread_count
    /\ \A w \in Workers : wpc[w] # "unspawned" <=> w \in 1..spawned
    /\ pc \in {"conc_join", "done"} => spawned = thread_count
    /\ c_timer = "stopped" =>
          /\ pc = "done"
          /\ joined = thread_count
          /\ \A w \in 1..thread_count : wpc[w] = "exited"
          /\ \A w \in Workers : w > thread_count => wpc[w] = "unspawned"
    /\ log.c_in_timer

C17_Witness ==
    /\ c_timer = "stopped"
    /\ thread_count = 1
    /\ MaxThreads > 1
    /\ Len(log.popped) = 2
    /\ BagCardinality(log.c_evaluated) = 2

\* C18: tasks leave the queue in batch order: the i-th successful pop
\* returns the i-th item of the batch and the queue is always the rest of the
\* batch.  With one worker the concurrent run therefore evaluates the items
\* in batch order, as the serial run does; with two or more workers an item
\* can be evaluated before one in front of it.
C18_PopsInBatchOrder ==
    LET evaluated == BagCardinality(log.c_evaluated)
    IN  /\ c_timer # "unread" => log.popped \o queue = tasks
        /\ \A i \in DOMAIN log.popped : log.popped[i] = tasks[i]
        /\ \A k \in DOMAIN log.s_evaluated : log.s_evaluated[k] = k
        /\ thread_count = 1 =>
              /\ log.c_evaluated = SeqToBag(SubSeq(tasks, 1, evaluated))
              /\ Len(log.popped) - evaluated \in {0, 1}

\* two workers: the second item is evaluated while the first is not
C18_Witness ==
    /\ thread_count >= 2
    /\ Len(tasks) >= 2
    /\ tasks[1] # tasks[2]
    /\ BagIn(tasks[2], log.c_evaluated)
    /\ ~BagIn(tasks[1], log.c_evaluated)
    /\ log.popped = SubSeq(tasks, 1, 2)

\* the workers whose evaluation panicked, and those with a task in hand
Panicked == {w \in Workers : wpc[w] = "panicked"}
InFlight == {w \in Workers : maybe_task[w] # None}

\* C19, as amended: a worker panics only while it evaluates a task and never
\* with the queue lock, so the lock is never left held and the other workers
\* keep locking and popping while the process lives; every task is queued,
\* in flight, evaluated or lost with a panicked worker.  The dispatcher
\* aborts when its join reaches the handle of a panicked worker: the handles
\* before it are of workers that left their loop, and only if there is such a
\* handle is the queue empty at the abort.
C19_CrashOutsideLock ==
    /\ [][\A w \in Workers :
            (wpc[w] # "panicked" /\ wpc'[w] = "panicked") =>
                wpc[w] = "run" /\ lock # w /\ lock' = lock /\ queue' = queue]_vars
    /\ [](\A w \in Panicked : lock # w /\ maybe_task[w] = None)
    /\ [](lock # 0 => wpc[lock] = "pop")
    /\ [](\A w \in Workers :
            /\ (Alive /\ wpc[w] = "lock" /\ lock = 0) => ENABLED Lock(w)
            /\ (Alive /\ wpc[w] = "pop") => ENABLED (PopSome(w) \/ PopNone(w)))
    /\ [](c_timer # "unread" =>
            Len(tasks) = BagCardinality(log.c_evaluated) + Len(queue)
                         + Cardinality(Panicked) + Cardinality(InFlight))
    /\ []((pc = "aborted" /\ c_timer = "running") =>
            /\ wpc[joined + 1] = "panicked"
            /\ \A w \in 1..joined : wpc[w] = "exited"
            /\ joined >= 1 => queue = <<>>)

\* the run is aborted with a task still queued and a worker still at work
C19_Witness ==
    /\ pc = "aborted"
    /\ c_timer = "running"
    /\ queue # <<>>
    /\ \E w \in Workers : wpc[w] \in {"lock", "pop", "sleep", "run"}

\* C19, as claimed: a panicked worker does not hold the lock, and when the
\* dispatcher aborts a run in which a worker survives, every task but those
\* in flight at the panicked workers has been popped and evaluated.
C19_SurvivorsFinish ==
    /\ \A w \in Panicked : lock # w
    /\ (/\ pc = "aborted"
        /\ c_timer = "running"
        /\ \E w \in 1..thread_count : wpc[w] # "panicked") =>
          /\ queue = <<>>
          /\ BagCardinality(log.c_evaluated) + Cardinality(Panicked) = Len(tasks)

\* C20: no task the generator can produce overflows the native width when
\* it is evaluated: a + b and a * b stay inside i32, factorial(n) and
\* fibonacci(n) inside u64, and so does every product result * base and
\* base * base of mod_exp; the evaluation returns Ok in a build with and in
\* a build without overflow checks, so no generated task panics a worker.
C20_GeneratedNeverOverflows ==
    returned # None =>
        LET t == subject[1]
        IN  /\ returned[1].res = "Ok"
            /\ run(t, TRUE).res = "Ok"
            /\ run(t, FALSE).res = "Ok"
            /\ t.kind = "Compute" =>
                  ~compute(t.a, t.b).ovf /\ compute(t.a, t.b).v = t.a + t.b
            /\ t.kind = "Multiply" =>
                  ~multiply(t.a, t.b).ovf /\ multiply(t.a, t.b).v = t.a * t.b
            /\ t.kind = "Factorial" => ~factorial(t.n).ovf
            /\ t.kind = "Fibonacci" => ~fibonacci(t.n).ovf
            /\ t.kind = "Divide" => ~divide(t.numerator, t.denominator).panics
            /\ t.kind = "ModuloExponentiation" =>
                  /\ mod_exp_products(t.base, t.exponent, t.modulus) # {}
                  /\ \A p \in mod_exp_products(t.base, t.exponent, t.modulus) :
                        ~p.ovf

\* the largest factorial of the generator, evaluated with overflow checks on
C20_Witness ==
    /\ returned # None
    /\ overflow_checks
    /\ subject[1] = Factorial(19)
    /\ returned[1].res = "Ok"
    /\ factorial(20).ovf = FALSE
    /\ factorial(21).ovf

====
